---- MODULE Spec2Model ----
(***************************************************************************)
(* Tailwind CSS class writers of oxc_formatter                             *)
(* (crates/oxc_formatter/src/utils/tailwindcss.rs).                        *)
(*                                                                         *)
(* Text is a sequence of Unicode scalar values (integers).  Rust indexes   *)
(* strings by UTF-8 byte offset; every offset the code computes is the     *)
(* offset of a one-byte ASCII-whitespace character, so slicing by byte     *)
(* offset and slicing by character offset select the same characters and   *)
(* the order of two offsets is the same in both; the model uses 0-based     *)
(* character offsets.  Option<T> is a sequence: <<>> is None, <<x>> is      *)
(* Some(x).                                                                *)
(***************************************************************************)
EXTENDS Integers, Sequences, FiniteSets

VARIABLES registry, stream, node, frame, mark, pc

vars == <<registry, stream, node, frame, mark, pc>>

(* ---------------------------- bounds ----------------------------------- *)

MaxLen == 5

MaxExprs == 2

PassLen == 1

MaxCalls == 2

(* ------------------------- characters ---------------------------------- *)

\* 'a', ' ', '\n', U+00A0 NO-BREAK SPACE
Chars == {97, 32, 10, 160}

\* 'a', ' '
PassChars == {97, 32}

Space == <<32>>

IsAsciiWhitespace(c) == c \in {9, 10, 12, 13, 32}

IsWhitespace(c) ==
    \/ c \in 9..13
    \/ c \in {32, 133, 160, 5760, 8232, 8233, 8239, 8287, 12288}
    \/ c \in 8192..8202

Texts(chars, n) == UNION {[1..k -> chars] : k \in 0..n}

(* --------------------------- str helpers ------------------------------- *)

MinOf(S) == CHOOSE x \in S : \A y \in S : x <= y

MaxOf(S) == CHOOSE x \in S : \A y \in S : y <= x

AsciiWsAt(s) == {i \in 1..Len(s) : IsAsciiWhitespace(s[i])}

StartsWithAsciiWs(s) == Len(s) > 0 /\ IsAsciiWhitespace(s[1])

EndsWithAsciiWs(s) == Len(s) > 0 /\ IsAsciiWhitespace(s[Len(s)])

Find(s) == IF AsciiWsAt(s) = {} THEN <<>> ELSE <<MinOf(AsciiWsAt(s)) - 1>>

RFind(s) == IF AsciiWsAt(s) = {} THEN <<>> ELSE <<MaxOf(AsciiWsAt(s)) - 1>>

\* content[a..b), 0-based, end exclusive
Slice(s, a, b) == SubSeq(s, a + 1, b)

Trim(s) ==
    LET keep == {i \in 1..Len(s) : ~IsWhitespace(s[i])}
    IN  IF keep = {} THEN <<>> ELSE SubSeq(s, MinOf(keep), MaxOf(keep))

Rev(s) == [i \in 1..Len(s) |-> s[Len(s) + 1 - i]]

TakeWhileAsciiWs(s) ==
    LET stop == {i \in 1..Len(s) : ~IsAsciiWhitespace(s[i])}
    IN  IF stop = {} THEN s ELSE SubSeq(s, 1, MinOf(stop) - 1)

(* ----------------------- formatter collaborators ----------------------- *)

Text(s) == [tag |-> "Text", text |-> s]

TailwindClass(i) == [tag |-> "TailwindClass", index |-> i]

\* f.context_mut().add_tailwind_class(s): append, return the new entry's index
add_tailwind_class(reg, s) == [registry |-> Append(reg, s), index |-> Len(reg)]

write_element(f, e) == [f EXCEPT !.stream = Append(@, e)]

\* variant: the ref carries the registry length after the push, not the index
WriteClassLenAfterPush(f, s) ==
    LET r == add_tailwind_class(f.registry, s)
    IN  write_element([f EXCEPT !.registry = r.registry], TailwindClass(Len(r.registry)))

\* let index = add_tailwind_class(s); f.write_element(TailwindClass(index))
WriteClass(f, s) ==
    LET r == add_tailwind_class(f.registry, s)
    IN  write_element([f EXCEPT !.registry = r.registry], TailwindClass(r.index))

\* if cond { write!(f, text(s)) }
WriteTextIf(cond, f, s) == IF cond THEN write_element(f, Text(s)) ELSE f

(* ------------------------- position resolver --------------------------- *)

\* iter().position(|q| q.span == span)
Position(quasis, span) ==
    LET hits == {i \in 1..Len(quasis) : quasis[i].span = span}
    IN  IF hits = {} THEN <<>> ELSE <<MinOf(hits) - 1>>

UnwrapOr(opt, d) == IF opt = <<>> THEN d ELSE opt[1]

get_template_position(element) ==
    CASE element.parent.kind = "TemplateLiteral" ->
            <<[quasi_index |-> UnwrapOr(Position(element.parent.quasis, element.span), 0),
               expressions_count |-> Len(element.parent.expressions)]>>
      [] element.parent.kind = "TSTemplateLiteralType" ->
            <<[quasi_index |-> UnwrapOr(Position(element.parent.quasis, element.span), 0),
               expressions_count |-> Len(element.parent.types)]>>
      [] OTHER -> <<>>

(* -------------------------- boundary splitter -------------------------- *)

IgnoreFirst(content, is_first_quasi) == ~is_first_quasi /\ ~StartsWithAsciiWs(content)

IgnoreLast(content, is_last_quasi) == ~is_last_quasi /\ ~EndsWithAsciiWs(content)

FirstWs(content, ignore_first) == IF ignore_first THEN Find(content) ELSE <<>>

LastWs(content, ignore_last) == IF ignore_last THEN RFind(content) ELSE <<>>

\* variant: the suffix starts at the last whitespace instead of after it
SplitSuffixAtWs(content, first_ws, last_ws) ==
    CASE first_ws # <<>> /\ last_ws # <<>> /\ first_ws[1] < last_ws[1] ->
            [prefix   |-> Slice(content, 0, first_ws[1]),
             sortable |-> Slice(content, first_ws[1], last_ws[1] + 1),
             suffix   |-> Slice(content, last_ws[1], Len(content))]
      [] first_ws # <<>> /\ ~(last_ws # <<>> /\ first_ws[1] < last_ws[1]) ->
            [prefix   |-> Slice(content, 0, first_ws[1]),
             sortable |-> Slice(content, first_ws[1], Len(content)),
             suffix   |-> <<>>]
      [] first_ws = <<>> /\ last_ws # <<>> ->
            [prefix   |-> <<>>,
             sortable |-> Slice(content, 0, last_ws[1] + 1),
             suffix   |-> Slice(content, last_ws[1], Len(content))]
      [] first_ws = <<>> /\ last_ws = <<>> ->
            [prefix |-> <<>>, sortable |-> content, suffix |-> <<>>]

Split(content, first_ws, last_ws) ==
    CASE first_ws # <<>> /\ last_ws # <<>> /\ first_ws[1] < last_ws[1] ->
            [prefix   |-> Slice(content, 0, first_ws[1]),
             sortable |-> Slice(content, first_ws[1], last_ws[1] + 1),
             suffix   |-> Slice(content, last_ws[1] + 1, Len(content))]
      [] first_ws # <<>> /\ ~(last_ws # <<>> /\ first_ws[1] < last_ws[1]) ->
            [prefix   |-> Slice(content, 0, first_ws[1]),
             sortable |-> Slice(content, first_ws[1], Len(content)),
             suffix   |-> <<>>]
      [] first_ws = <<>> /\ last_ws # <<>> ->
            [prefix   |-> <<>>,
             sortable |-> Slice(content, 0, last_ws[1] + 1),
             suffix   |-> Slice(content, last_ws[1] + 1, Len(content))]
      [] first_ws = <<>> /\ last_ws = <<>> ->
            [prefix |-> <<>>, sortable |-> content, suffix |-> <<>>]

\* variant: the leading space is written only after an ignored prefix
LeadingSpaceOnlyAfterPrefix(is_first_quasi, has_prefix) == has_prefix

LeadingSpace(is_first_quasi, has_prefix) == ~is_first_quasi \/ has_prefix

TrailingSpace(is_last_quasi, has_suffix) == ~is_last_quasi \/ has_suffix

\* variant: a whitespace-only region is written as it stands
WriteSortableKeepsWs(f, sortable, lead, trail) ==
    LET trimmed == Trim(sortable)
    IN  IF trimmed = <<>>
        THEN WriteTextIf(sortable # <<>>, f, sortable)
        ELSE WriteTextIf(trail, WriteClass(WriteTextIf(lead, f, Space), trimmed), Space)

\* lines 99-119: the sortable region with normalized whitespace
WriteSortable(f, sortable, lead, trail) ==
    LET trimmed == Trim(sortable)
    IN  IF trimmed = <<>>
        THEN WriteTextIf(sortable # <<>>, f, Space)
        ELSE WriteTextIf(trail, WriteClass(WriteTextIf(lead, f, Space), trimmed), Space)

NoFrame ==
    [quasi_index |-> 0, expressions_count |-> 0,
     prefix |-> <<>>, sortable |-> <<>>, suffix |-> <<>>]

\* the locals of the non-preserve path (lines 71-92)
TemplateFrame(element) ==
    LET content == element.content
        p == UnwrapOr(get_template_position(element),
                      [quasi_index |-> 0, expressions_count |-> 0])
        is_first_quasi == p.quasi_index = 0
        is_last_quasi == p.quasi_index >= p.expressions_count
        parts == Split(content,
                       FirstWs(content, IgnoreFirst(content, is_first_quasi)),
                       LastWs(content, IgnoreLast(content, is_last_quasi)))
    IN  [quasi_index |-> p.quasi_index, expressions_count |-> p.expressions_count,
         prefix |-> parts.prefix, sortable |-> parts.sortable, suffix |-> parts.suffix]

write_tailwind_template_element(element, preserve_whitespace, f) ==
    IF preserve_whitespace
    THEN WriteClass(f, element.content)
    ELSE LET l == TemplateFrame(element)
             is_first_quasi == l.quasi_index = 0
             is_last_quasi == l.quasi_index >= l.expressions_count
             has_prefix == l.prefix # <<>>
             has_suffix == l.suffix # <<>>
             f1 == WriteTextIf(has_prefix, f, l.prefix)
             f2 == WriteSortable(f1, l.sortable,
                                 LeadingSpace(is_first_quasi, has_prefix),
                                 TrailingSpace(is_last_quasi, has_suffix))
         IN  WriteTextIf(has_suffix, f2, l.suffix)

(* ------------------------- string-literal writer ----------------------- *)

LeadingWs(content) == TakeWhileAsciiWs(content)

TrailingWs(content) == TakeWhileAsciiWs(Rev(content))

write_tailwind_string_literal(string_literal, f) ==
    LET content == string_literal.content
        is_direct_child == string_literal.parent.kind = "JSXAttribute"
    IN  IF is_direct_child
        THEN WriteClass(f, content)
        ELSE LET leading_ws == LeadingWs(content)
                 trailing_ws == TrailingWs(content)
                 trimmed == Trim(content)
                 f1 == WriteTextIf(leading_ws # <<>>, f, leading_ws)
                 f2 == IF trimmed # <<>> THEN WriteClass(f1, trimmed) ELSE f1
             IN  WriteTextIf(trailing_ws # <<>>, f2, trailing_ws)

(* ------------------------------ AST nodes ------------------------------ *)

Quasis(n) == [i \in 1..(n + 1) |-> [span |-> i - 1]]

Exprs(n) == [i \in 1..n |-> "expr"]

TemplateParents ==
    {[kind |-> "Other"]}
    \cup {[kind |-> "TemplateLiteral", quasis |-> Quasis(n), expressions |-> Exprs(n)] :
            n \in 0..MaxExprs}
    \cup {[kind |-> "TSTemplateLiteralType", quasis |-> Quasis(n), types |-> Exprs(n)] :
            n \in 0..MaxExprs}

\* spans an element under parent p may carry; the last one matches no sibling
SpansUnder(p) == IF p.kind = "Other" THEN {0} ELSE 0..Len(p.quasis)

TemplateElements(texts) ==
    UNION {{[type |-> "TemplateElement", content |-> t, span |-> s, parent |-> p,
             preserve_whitespace |-> b] :
               t \in texts, s \in SpansUnder(p), b \in BOOLEAN} : p \in TemplateParents}

StringLiterals(texts) ==
    {[type |-> "StringLiteral", content |-> t, parent |-> [kind |-> k]] :
        t \in texts, k \in {"JSXAttribute", "CallExpression"}}

Nodes(texts) == TemplateElements(texts) \cup StringLiterals(texts)

(* ------------------------------ actions -------------------------------- *)

Formatter == [registry |-> registry, stream |-> stream]

Init ==
    /\ registry = <<>>
    /\ stream = <<>>
    /\ \E t \in Texts(Chars, MaxLen) : node \in Nodes({t})
    /\ frame = NoFrame
    /\ mark = [registry |-> 0, stream |-> 0, calls |-> 0]
    /\ pc = "visit"

WriteTemplateElement ==
    /\ pc = "visit"
    /\ node.type = "TemplateElement"
    /\ LET f == write_tailwind_template_element(node, node.preserve_whitespace, Formatter)
       IN  /\ registry' = f.registry
           /\ stream' = f.stream
    /\ frame' = IF node.preserve_whitespace THEN NoFrame ELSE TemplateFrame(node)
    /\ pc' = "done"
    /\ UNCHANGED <<node, mark>>

WriteStringLiteral ==
    /\ pc = "visit"
    /\ node.type = "StringLiteral"
    /\ LET f == write_tailwind_string_literal(node, Formatter)
       IN  /\ registry' = f.registry
           /\ stream' = f.stream
    /\ frame' = NoFrame
    /\ pc' = "done"
    /\ UNCHANGED <<node, mark>>

\* the host traversal moves on to the next tailwind-bearing literal
VisitNext ==
    /\ pc = "done"
    /\ mark.calls + 1 < MaxCalls
    /\ \E t \in Texts(PassChars, PassLen) : node' \in Nodes({t})
    /\ mark' = [registry |-> Len(registry), stream |-> Len(stream), calls |-> mark.calls + 1]
    /\ pc' = "visit"
    /\ UNCHANGED <<registry, stream, frame>>

Next == WriteTemplateElement \/ WriteStringLiteral

Spec == Init /\ [][Next]_vars

InitPass ==
    /\ registry = <<>>
    /\ stream = <<>>
    /\ \E t \in Texts(PassChars, PassLen) : node \in Nodes({t})
    /\ frame = NoFrame
    /\ mark = [registry |-> 0, stream |-> 0, calls |-> 0]
    /\ pc = "visit"

NextPass == WriteTemplateElement \/ WriteStringLiteral \/ VisitNext

SpecPass == InitPass /\ [][NextPass]_vars

(* ======================= observation vocabulary ======================== *)

\* what the call that just returned appended to the token stream / registry
Emitted == SubSeq(stream, mark.stream + 1, Len(stream))

Registered == SubSeq(registry, mark.registry + 1, Len(registry))

TemplateDone ==
    pc = "done" /\ node.type = "TemplateElement" /\ ~node.preserve_whitespace

LiteralDone == pc = "done" /\ node.type = "StringLiteral"

NestedDone == LiteralDone /\ node.parent.kind # "JSXAttribute"

IsTextTok(t, s) == t.tag = "Text" /\ t.text = s

IsClassTok(t, i) == t.tag = "TailwindClass" /\ t.index = i

OptText(s) == IF s = <<>> THEN <<>> ELSE <<Text(s)>>

RECURSIVE Concat(_)
Concat(ss) == IF ss = <<>> THEN <<>> ELSE Head(ss) \o Concat(Tail(ss))

\* the text a token stands for when every registered string is put back unsorted
TokText(t) == IF t.tag = "Text" THEN t.text ELSE registry[t.index + 1]

Rendered(toks) == Concat([i \in 1..Len(toks) |-> TokText(toks[i])])

ClassToks(toks) == SelectSeq(toks, LAMBDA t : t.tag = "TailwindClass")

IsInfix(r, s) == \E i \in 1..(Len(s) + 1) : \E j \in (i - 1)..Len(s) : SubSeq(s, i, j) = r

\* maximal leading / trailing run of ASCII whitespace, in source order
LeadRun(s) ==
    LET stop == {i \in 1..Len(s) : ~IsAsciiWhitespace(s[i])}
    IN  IF stop = {} THEN s ELSE SubSeq(s, 1, MinOf(stop) - 1)

TrailRun(s) ==
    LET stop == {i \in 1..Len(s) : ~IsAsciiWhitespace(s[i])}
    IN  IF stop = {} THEN s ELSE SubSeq(s, MaxOf(stop) + 1, Len(s))

AsciiTrimmed(s) ==
    LET stop == {i \in 1..Len(s) : ~IsAsciiWhitespace(s[i])}
    IN  IF stop = {} THEN <<>> ELSE SubSeq(s, MinOf(stop), MaxOf(stop))

\* the class at the left / right edge of a fragment
LeadingClass(s) == IF AsciiWsAt(s) = {} THEN s ELSE SubSeq(s, 1, MinOf(AsciiWsAt(s)) - 1)

TrailingClass(s) ==
    IF AsciiWsAt(s) = {} THEN s ELSE SubSeq(s, MaxOf(AsciiWsAt(s)) + 1, Len(s))

AfterLeadingClass(s) == SubSeq(s, Len(LeadingClass(s)) + 1, Len(s))

BeforeTrailingClass(s) == SubSeq(s, 1, Len(s) - Len(TrailingClass(s)))

(* =============================== claims ================================ *)

\* C1 (ignoreFirst): after a non-preserve template call on a fragment with
\* position > 0 that does not start with ASCII whitespace, the first token
\* emitted is the leading class as verbatim text and every registered string
\* comes from the text after that class.
C1_IgnoreFirstKeepsLeadingClass ==
    (/\ TemplateDone
     /\ frame.quasi_index > 0
     /\ node.content # <<>>
     /\ ~StartsWithAsciiWs(node.content))
    => /\ Emitted # <<>>
       /\ IsTextTok(Emitted[1], LeadingClass(node.content))
       /\ \A i \in 1..Len(Registered) :
            IsInfix(Registered[i], AfterLeadingClass(node.content))

\* C2 (ignoreLast): after a non-preserve template call on a fragment with
\* position < expr_count that does not end with ASCII whitespace, the last
\* token emitted is the trailing class as verbatim text and every registered
\* string comes from the text before that class.
C2_IgnoreLastKeepsTrailingClass ==
    (/\ TemplateDone
     /\ frame.quasi_index < frame.expressions_count
     /\ node.content # <<>>
     /\ ~EndsWithAsciiWs(node.content))
    => /\ Emitted # <<>>
       /\ IsTextTok(Emitted[Len(Emitted)], TrailingClass(node.content))
       /\ \A i \in 1..Len(Registered) :
            IsInfix(Registered[i], BeforeTrailingClass(node.content))

\* C3 (nested literal, non-empty middle): the call emits the leading ASCII
\* whitespace run, one class ref registering the content without its leading
\* and trailing runs, and the trailing run in source order.
C3_NestedLiteralSplitsInOrder ==
    (NestedDone /\ Trim(node.content) # <<>>)
    => /\ Registered = <<AsciiTrimmed(node.content)>>
       /\ Emitted = OptText(LeadRun(node.content))
                    \o <<TailwindClass(mark.registry)>>
                    \o OptText(TrailRun(node.content))

\* C4 (nested literal, whitespace only): nothing is registered, no class ref
\* is emitted and the verbatim text emitted is exactly the content.
C4_NestedWhitespaceOnlyVerbatim ==
    (NestedDone /\ AsciiTrimmed(node.content) = <<>>)
    => /\ Registered = <<>>
       /\ ClassToks(Emitted) = <<>>
       /\ Rendered(Emitted) = node.content

\* C5 as first stated (total partition): what a non-preserve template call
\* emits, with the registered text put back unsorted, is the fragment text.
C5_EmittedReproducesFragment ==
    TemplateDone => Rendered(Emitted) = node.content

\* the tokens emitted between the verbatim prefix and the verbatim suffix
PrefixToks == Len(OptText(frame.prefix))

SuffixToks == Len(OptText(frame.suffix))

Middle == SubSeq(Emitted, PrefixToks + 1, Len(Emitted) - SuffixToks)

\* r is s without a leading and a trailing run of whitespace
StrippedOf(r, s) ==
    /\ r # <<>>
    /\ ~IsWhitespace(r[1])
    /\ ~IsWhitespace(r[Len(r)])
    /\ \E i \in 1..Len(s) :
          /\ SubSeq(s, i, i + Len(r) - 1) = r
          /\ \A k \in 1..Len(s) : (k < i \/ k >= i + Len(r)) => IsWhitespace(s[k])

\* C5 (amended): the three regions of the split concatenate to the fragment
\* text; the call emits the prefix verbatim first and the suffix verbatim
\* last, and between them only single spaces and class refs whose registered
\* string is the sortable region without its surrounding whitespace.
C5_SplitPartitionsFragment ==
    TemplateDone =>
       /\ frame.prefix \o frame.sortable \o frame.suffix = node.content
       /\ Len(Emitted) >= PrefixToks + SuffixToks
       /\ SubSeq(Emitted, 1, PrefixToks) = OptText(frame.prefix)
       /\ SubSeq(Emitted, Len(Emitted) - SuffixToks + 1, Len(Emitted)) = OptText(frame.suffix)
       /\ \A i \in 1..Len(Middle) :
             \/ IsTextTok(Middle[i], Space)
             \/ /\ Middle[i].tag = "TailwindClass"
                /\ StrippedOf(TokText(Middle[i]), frame.sortable)

C5_Witness ==
    /\ TemplateDone
    /\ frame.prefix # <<>>
    /\ frame.suffix # <<>>
    /\ Len(Registered) = 1
    /\ Len(Emitted) = 5
    /\ Rendered(Emitted) = node.content

HasWsRun(s) ==
    \E i \in 1..(Len(s) - 1) : IsAsciiWhitespace(s[i]) /\ IsAsciiWhitespace(s[i + 1])

\* number of maximal runs of two or more ASCII-whitespace characters
WsRuns2(s) ==
    Cardinality({i \in 1..(Len(s) - 1) :
                    /\ IsAsciiWhitespace(s[i])
                    /\ IsAsciiWhitespace(s[i + 1])
                    /\ (i = 1 \/ ~IsAsciiWhitespace(s[i - 1]))})

SpacesIn(s) == Cardinality({i \in 1..Len(s) : s[i] = 32})

\* C6 as first stated (whitespace collapse): no run of two or more
\* ASCII-whitespace characters of the sortable region survives in the output,
\* registered string included, and each such run shows as one space.
C6_NoWhitespaceRunSurvives ==
    TemplateDone =>
       /\ ~HasWsRun(Rendered(Middle))
       /\ WsRuns2(frame.sortable) <= SpacesIn(Rendered(Middle))

\* C6 (amended): every verbatim token emitted for the sortable region is one
\* space and no two of them are adjacent; a whitespace-only region is emitted
\* as exactly one space; a registered string neither starts nor ends with
\* whitespace (runs between two classes inside it are left to the sorter).
C6_EdgeRunsCollapse ==
    TemplateDone =>
       /\ \A i \in 1..Len(Middle) : Middle[i].tag = "Text" => Middle[i].text = Space
       /\ \A i \in 1..(Len(Middle) - 1) :
             ~(Middle[i].tag = "Text" /\ Middle[i + 1].tag = "Text")
       /\ (frame.sortable # <<>> /\ Trim(frame.sortable) = <<>>) => Middle = <<Text(Space)>>
       /\ \A i \in 1..Len(Registered) :
             /\ Registered[i] # <<>>
             /\ ~IsWhitespace(Registered[i][1])
             /\ ~IsWhitespace(Registered[i][Len(Registered[i])])

C6_Witness ==
    /\ TemplateDone
    /\ frame.prefix # <<>>
    /\ Len(frame.sortable) >= 3
    /\ IsAsciiWhitespace(frame.sortable[1])
    /\ IsAsciiWhitespace(frame.sortable[2])
    /\ Len(Registered) = 1
    /\ Middle = <<Text(Space), TailwindClass(mark.registry)>>

\* C7 (position resolver fallback): when the parent is no template literal,
\* or is one but no sibling fragment has the fragment's span, the pair used
\* by the template writer is (0, 0).
C7_FallbackIsZeroZero ==
    (/\ TemplateDone
     /\ \/ node.parent.kind \notin {"TemplateLiteral", "TSTemplateLiteralType"}
        \/ Position(node.parent.quasis, node.span) = <<>>)
    => /\ frame.quasi_index = 0
       /\ frame.expressions_count = 0

RefIndices(toks) == [i \in 1..Len(ClassToks(toks)) |-> ClassToks(toks)[i].index]

\* C8 (registry and reference order): every step leaves the registry and the
\* stream append-only, registers at most one string, emits a class ref exactly
\* when it registers and with the index of that new entry, so the refs of the
\* stream are 0, 1, 2, ... in order, one per registry entry.
C8_RegistryAndRefOrder ==
    [][/\ SubSeq(registry', 1, Len(registry)) = registry
       /\ SubSeq(stream', 1, Len(stream)) = stream
       /\ Len(registry') \in {Len(registry), Len(registry) + 1}
       /\ RefIndices(SubSeq(stream', Len(stream) + 1, Len(stream')))
            = [i \in 1..(Len(registry') - Len(registry)) |-> Len(registry) + i - 1]
       /\ RefIndices(stream') = [i \in 1..Len(registry') |-> i - 1]]_vars

C8_Witness ==
    /\ pc = "done"
    /\ mark.calls = 1
    /\ Len(registry) = 2
    /\ registry[1] = registry[2]
    /\ RefIndices(stream) = <<0, 1>>
    /\ RefIndices(Emitted) = <<1>>

\* C9 (boundary spacing): when the trimmed sortable region is non-empty the
\* call registers exactly the sortable region without its leading and trailing
\* whitespace, emits one class ref for it, a single space right before the ref
\* iff the fragment is not first or the prefix is non-empty, and a single
\* space right after it iff the fragment is not last or the suffix is non-empty.
C9_BoundarySpacing ==
    (TemplateDone /\ Trim(frame.sortable) # <<>>)
    => /\ Len(Registered) = 1
       /\ StrippedOf(Registered[1], frame.sortable)
       /\ Len(ClassToks(Emitted)) = 1
       /\ \E k \in 1..Len(Emitted) :
             /\ IsClassTok(Emitted[k], mark.registry)
             /\ (k > 1 /\ IsTextTok(Emitted[k - 1], Space))
                   <=> (frame.quasi_index # 0 \/ frame.prefix # <<>>)
             /\ ~(k > 2 /\ IsTextTok(Emitted[k - 1], Space) /\ IsTextTok(Emitted[k - 2], Space))
             /\ (k < Len(Emitted) /\ IsTextTok(Emitted[k + 1], Space))
                   <=> (frame.quasi_index < frame.expressions_count \/ frame.suffix # <<>>)
             /\ ~(/\ k + 1 < Len(Emitted)
                  /\ IsTextTok(Emitted[k + 1], Space)
                  /\ IsTextTok(Emitted[k + 2], Space))

\* " a " at position 0 of 1 expression: no prefix, no leading space, one trailing space
C9_Witness ==
    /\ TemplateDone
    /\ node.content = <<32, 97, 32>>
    /\ frame.quasi_index = 0
    /\ frame.expressions_count = 1
    /\ Registered = <<(<<97>>)>>
    /\ Emitted = <<TailwindClass(mark.registry), Text(Space)>>

RECURSIVE NonWsRuns(_)
NonWsRuns(s) ==
    IF s = <<>> THEN <<>>
    ELSE IF IsAsciiWhitespace(s[1]) THEN NonWsRuns(Tail(s))
    ELSE <<LeadingClass(s)>> \o NonWsRuns(AfterLeadingClass(s))

\* C10 (class-token preservation): for both writers the maximal runs of
\* non-ASCII-whitespace characters of the output, registered strings put back
\* unchanged, are the runs of the original text, in the same order.
C10_ClassTokensPreserved ==
    (TemplateDone \/ LiteralDone) => NonWsRuns(Rendered(Emitted)) = NonWsRuns(node.content)

====
